---- MODULE Spec2Model ----
(***************************************************************************)
(* A model of src/src/lib.rs: the Circuit Playground Firmata binding.      *)
(*                                                                         *)
(*  - the statics of lines 44-105 (opcode texts, accelerometer ranges,     *)
(*    thermistor constants, cap-touch threshold);                          *)
(*  - CircuitPlayground::new (lines 115-140), one action per statement,    *)
(*    driven by a caller that calls it, keeps or drops the result, and     *)
(*    calls it again.                                                      *)
(*                                                                         *)
(* The serial and firmata crates are outside the repository; each of their *)
(* calls is modelled by its outcomes (Ok / Err) and its effect on the      *)
(* values lib.rs holds.                                                    *)
(***************************************************************************)
EXTENDS Integers, Sequences, FiniteSets, TLC

VARIABLES
    os_type,    \* env::consts::OS of the host (line 133)
    ports,      \* the host's serial ports: port id -> "missing" | "busy" | "available"
    device,     \* the firmware of the board behind an available port
    pc,         \* position of the caller / of new()
    port_id,    \* new()'s argument
    sp,         \* new()'s local `sp` (line 116)
    board,      \* new()'s local `board` (line 127)
    stdout,     \* the lines println! wrote (lines 129-131)
    result,     \* what new() returned to the caller
    held,       \* the caller's binding of the returned CircuitPlayground
    steps,      \* the statements of new() executed in this call, with their outcome
    opens,      \* how many times this call opened the serial device
    closes,     \* how many times the port opened by this call was dropped (closed)
    probe       \* a reader of the statics (used by TableSpec only)

vars == <<os_type, ports, device, pc, port_id, sp, board, stdout, result, held,
          steps, opens, closes, probe>>

-----------------------------------------------------------------------------
(* Values *)

None == [tag |-> "None"]

\* A value whose ownership was moved away (Box::new(sp), Ok(CircuitPlayground{..})).
Moved == [tag |-> "Moved"]

\* A value that went out of scope.
Dropped == [tag |-> "Dropped"]

NoResult == [tag |-> "NoResult"]

\* The hosts new() may run on: values of env::consts::OS.
OsTypes == {"windows", "linux", "macos", "freebsd"}

\* Port names a caller may pass.
PortIds == {"COM3", "/dev/ttyACM0"}

PortStatuses == {"missing", "busy", "available"}

\* Firmware identities a board may report during the Firmata handshake.
FirmwareNames == {"CircuitPlaygroundFirmata.ino", "StandardFirmata.ino"}

FirmwareVersions == {"2.4", "2.5"}

ProtocolVersions == {"2.3", "2.5"}

Devices == [firmware_name : FirmwareNames,
            firmware_version : FirmwareVersions,
            protocol_version : ProtocolVersions]

\* Line settings a freshly opened port may carry over from its previous user.
PriorSettings ==
    { [baud_rate |-> "Baud9600", char_size |-> "Bits8", parity |-> "ParityNone",
       stop_bits |-> "Stop1", flow_control |-> "FlowNone"],
      [baud_rate |-> "Baud115200", char_size |-> "Bits7", parity |-> "ParityEven",
       stop_bits |-> "Stop2", flow_control |-> "FlowHardware"] }

-----------------------------------------------------------------------------
(* The statics, lines 44-105 *)

\* Lines 44-90: the command values. Each is a &str holding the text of a hex
\* literal; a text is modelled as the sequence of its characters.
\* line 44
CP_COMMAND == <<"0", "x", "4", "0">>

\* line 45
CP_PIXEL_SET == <<"0", "x", "1", "0">>

\* line 49
CP_PIXEL_SHOW == <<"0", "x", "1", "1">>

\* line 50
CP_PIXEL_CLEAR == <<"0", "x", "1", "2">>

\* line 51
CP_PIXEL_BRIGHTNESS == <<"0", "x", "1", "3">>

\* Mutant of CP_TONE: the digits transposed.
CP_TONE_Transposed == <<"0", "x", "0", "2">>

\* line 54
CP_TONE == <<"0", "x", "2", "0">>

\* line 57
CP_NO_TONE == <<"0", "x", "2", "1">>

\* line 58
CP_ACCEL_READ == <<"0", "x", "3", "0">>

\* line 59
CP_ACCEL_TAP == <<"0", "x", "3", "1">>

\* line 60
CP_ACCEL_READ_REPLY == <<"0", "x", "3", "6">>

\* line 62
CP_ACCEL_TAP_REPLY == <<"0", "x", "3", "7">>

\* line 63
CP_ACCEL_TAP_STREAM_ON == <<"0", "x", "3", "8">>

\* line 64
CP_ACCEL_TAP_STREAM_OFF == <<"0", "x", "3", "9">>

\* line 65
CP_ACCEL_STREAM_ON == <<"0", "x", "3", "A">>

\* line 66
CP_ACCEL_STREAM_OFF == <<"0", "x", "3", "B">>

\* line 67
CP_ACCEL_RANGE == <<"0", "x", "3", "C">>

\* line 69
CP_ACCEL_TAP_CONFIG == <<"0", "x", "3", "D">>

\* line 75
CP_CAP_READ == <<"0", "x", "4", "0">>

\* line 78
CP_CAP_ON == <<"0", "x", "4", "1">>

\* line 79
CP_CAP_OFF == <<"0", "x", "4", "2">>

\* line 80
CP_CAP_REPLY == <<"0", "x", "4", "3">>

\* line 82
CP_SENSECOLOR == <<"0", "x", "5", "0">>

\* line 83
CP_SENSECOLOR_REPLY == <<"0", "x", "5", "1">>

\* line 89
CP_IMPL_VERS == <<"0", "x", "6", "0">>

\* Mutant of CP_IMPL_VERS_REPLY: the value of the line above copied unchanged.
CP_IMPL_VERS_REPLY_Copied == <<"0", "x", "6", "0">>

\* line 90
CP_IMPL_VERS_REPLY == <<"0", "x", "6", "1">>

\* The statics of lines 44-90, in source order.
OpcodeStatics ==
    << <<"CP_COMMAND", CP_COMMAND>>,
       <<"CP_PIXEL_SET", CP_PIXEL_SET>>,
       <<"CP_PIXEL_SHOW", CP_PIXEL_SHOW>>,
       <<"CP_PIXEL_CLEAR", CP_PIXEL_CLEAR>>,
       <<"CP_PIXEL_BRIGHTNESS", CP_PIXEL_BRIGHTNESS>>,
       <<"CP_TONE", CP_TONE>>,
       <<"CP_NO_TONE", CP_NO_TONE>>,
       <<"CP_ACCEL_READ", CP_ACCEL_READ>>,
       <<"CP_ACCEL_TAP", CP_ACCEL_TAP>>,
       <<"CP_ACCEL_READ_REPLY", CP_ACCEL_READ_REPLY>>,
       <<"CP_ACCEL_TAP_REPLY", CP_ACCEL_TAP_REPLY>>,
       <<"CP_ACCEL_TAP_STREAM_ON", CP_ACCEL_TAP_STREAM_ON>>,
       <<"CP_ACCEL_TAP_STREAM_OFF", CP_ACCEL_TAP_STREAM_OFF>>,
       <<"CP_ACCEL_STREAM_ON", CP_ACCEL_STREAM_ON>>,
       <<"CP_ACCEL_STREAM_OFF", CP_ACCEL_STREAM_OFF>>,
       <<"CP_ACCEL_RANGE", CP_ACCEL_RANGE>>,
       <<"CP_ACCEL_TAP_CONFIG", CP_ACCEL_TAP_CONFIG>>,
       <<"CP_CAP_READ", CP_CAP_READ>>,
       <<"CP_CAP_ON", CP_CAP_ON>>,
       <<"CP_CAP_OFF", CP_CAP_OFF>>,
       <<"CP_CAP_REPLY", CP_CAP_REPLY>>,
       <<"CP_SENSECOLOR", CP_SENSECOLOR>>,
       <<"CP_SENSECOLOR_REPLY", CP_SENSECOLOR_REPLY>>,
       <<"CP_IMPL_VERS", CP_IMPL_VERS>>,
       <<"CP_IMPL_VERS_REPLY", CP_IMPL_VERS_REPLY>> >>

\* Lines 94-97: the accelerometer ranges passed to set_accel_range (u8).
ACCEL_2G == 0

ACCEL_4G == 1

\* Mutant of ACCEL_8G: the selector of the next range.
ACCEL_8G_AsNext == 2 + 1

ACCEL_8G == 2

ACCEL_16G == 3

AccelStatics ==
    << <<"ACCEL_2G", ACCEL_2G>>, <<"ACCEL_4G", ACCEL_4G>>,
       <<"ACCEL_8G", ACCEL_8G>>, <<"ACCEL_16G", ACCEL_16G>> >>

\* Lines 100-105: the board peripherals. The f64 statics are whole numbers and
\* are modelled by the integer they equal (10000.0 by 10000).
THERM_PIN == 0

THERM_SERIES_OHMS == 10000

THERM_NOMINAL_OHMS == 10000

THERM_NOMIMAL_C == 25

THERM_BETA == 3950

\* Mutant of CAP_THRESHOLD: off by one.
CAP_THRESHOLD_OffByOne == 300 - 1

CAP_THRESHOLD == 300

PeripheralStatics ==
    << <<"THERM_PIN", THERM_PIN>>,
       <<"THERM_SERIES_OHMS", THERM_SERIES_OHMS>>,
       <<"THERM_NOMINAL_OHMS", THERM_NOMINAL_OHMS>>,
       <<"THERM_NOMIMAL_C", THERM_NOMIMAL_C>>,
       <<"THERM_BETA", THERM_BETA>>,
       <<"CAP_THRESHOLD", CAP_THRESHOLD>> >>

\* Every static of the file with its value.
Statics == OpcodeStatics \o AccelStatics \o PeripheralStatics

Names(table) == {table[i][1] : i \in DOMAIN table}

\* The value of the static called `name`.
StaticValue(name) ==
    Statics[CHOOSE i \in DOMAIN Statics : Statics[i][1] = name][2]

\* Lines 105-107: "If the cap touch value is above this value it is considered
\* touched." The file has no function using the threshold; this is the
\* comparison its comment and the specification describe.
cap_touched(raw) == raw > CAP_THRESHOLD

\* The largest raw capacitive reading tried.
MaxReading == 310

\* A user of the statics reads two of them.
ReadStatics ==
    /\ probe.stage = "pick"
    /\ probe' = [stage |-> "read", a |-> probe.a, b |-> probe.b,
                 va |-> StaticValue(probe.a), vb |-> StaticValue(probe.b)]
    /\ UNCHANGED <<os_type, ports, device, pc, port_id, sp, board, stdout, result,
                   held, steps, opens, closes>>

\* A raw capacitive reading is compared with the threshold.
CapTouched ==
    /\ probe.stage = "raw"
    /\ probe' = [stage |-> "touch", raw |-> probe.raw,
                 touched |-> cap_touched(probe.raw)]
    /\ UNCHANGED <<os_type, ports, device, pc, port_id, sp, board, stdout, result,
                   held, steps, opens, closes>>

-----------------------------------------------------------------------------
(* CircuitPlayground::new, lines 115-140 *)

\* The `?` operator of lines 116, 125 and 127: the error of the failed call is
\* converted into the function's error type, Box<dyn Error>, and returned.
Question(call) == [tag |-> "Err", ty |-> "Box<dyn Error>", source |-> call]

\* Mutant of Setup: the closure forgets set_flow_control.
SetupWithoutFlowControl(settings, baud_ok) ==
    IF ~baud_ok
    THEN [ok |-> FALSE, settings |-> settings]
    ELSE [ok |-> TRUE,
          settings |-> [baud_rate    |-> "Baud57600",
                        char_size    |-> "Bits8",
                        parity       |-> "ParityNone",
                        stop_bits    |-> "Stop1",
                        flow_control |-> settings.flow_control]]

\* The closure of lines 118-125: set_baud_rate may reject the rate, and its `?`
\* then leaves the closure before any other setter runs.
Setup(settings, baud_ok) ==
    IF ~baud_ok
    THEN [ok |-> FALSE, settings |-> settings]
    ELSE [ok |-> TRUE,
          settings |-> [baud_rate    |-> "Baud57600",
                        char_size    |-> "Bits8",
                        parity       |-> "ParityNone",
                        stop_bits    |-> "Stop1",
                        flow_control |-> "FlowNone"]]

\* println!("<label> {}", value)
Println(label, value) == label \o " " \o value

Step(stmt, ok) == [stmt |-> stmt, ok |-> ok]

\* The caller calls CircuitPlayground::new(id): no call is running and the
\* caller holds no handle from an earlier call.
Call ==
    /\ pc \in {"idle", "returned"}
    /\ held \in {None, Dropped}
    /\ \E id \in PortIds : port_id' = id
    /\ pc' = "open"
    /\ sp' = None
    /\ board' = None
    /\ stdout' = << >>
    /\ result' = NoResult
    /\ held' = None
    /\ steps' = << >>
    /\ opens' = 0
    /\ closes' = 0
    /\ UNCHANGED <<os_type, ports, device, probe>>

\* Mutant of Open: the error of serial::open is kept but new() does not return on
\* it, and goes on with a port value.
OpenNoEarlyReturn ==
    /\ pc = "open"
    /\ \E prior \in PriorSettings :
          sp' = [tag |-> "Port", id |-> port_id, settings |-> prior]
    /\ opens' = opens + 1
    /\ steps' = Append(steps, Step("open", ports[port_id] = "available"))
    /\ pc' = "reconfigure"
    /\ result' = IF ports[port_id] = "available" THEN result
                 ELSE Question("serial::open")
    /\ UNCHANGED <<os_type, ports, device, port_id, board, stdout, held, closes, probe>>

\* line 116: let mut sp = serial::open(port_id)?;
Open ==
    /\ pc = "open"
    /\ IF ports[port_id] = "available"
       THEN /\ \E prior \in PriorSettings :
                  sp' = [tag |-> "Port", id |-> port_id, settings |-> prior]
            /\ opens' = opens + 1
            /\ steps' = Append(steps, Step("open", TRUE))
            /\ pc' = "reconfigure"
            /\ UNCHANGED result
       ELSE /\ result' = Question("serial::open")
            /\ steps' = Append(steps, Step("open", FALSE))
            /\ pc' = "returned"
            /\ UNCHANGED <<sp, opens>>
    /\ UNCHANGED <<os_type, ports, device, port_id, board, stdout, held, closes, probe>>

\* Mutant of Reconfigure: a failed reconfigure is tried again instead of returned.
ReconfigureRetry ==
    /\ pc = "reconfigure"
    /\ \E io_ok \in BOOLEAN, baud_ok \in BOOLEAN :
         LET done == Setup(sp.settings, baud_ok) IN
         IF io_ok /\ done.ok
         THEN /\ sp' = [sp EXCEPT !.settings = done.settings]
              /\ steps' = Append(steps, Step("reconfigure", TRUE))
              /\ pc' = "handshake"
         ELSE /\ sp' = sp
              /\ steps' = Append(steps, Step("reconfigure", FALSE))
              /\ pc' = "reconfigure"
    /\ UNCHANGED <<os_type, ports, device, port_id, board, stdout, result, held,
                   opens, closes, probe>>

\* lines 118-125: sp.reconfigure(&|settings| { ... })?;
\* reconfigure reads the port's settings, runs the closure on them and writes them
\* back; the read or the write may fail ("io"), and so may the closure. On an
\* error the `?` returns and `sp` goes out of scope.
Reconfigure ==
    /\ pc = "reconfigure"
    /\ \E io_ok \in BOOLEAN, baud_ok \in BOOLEAN :
         LET done == Setup(sp.settings, baud_ok) IN
         IF io_ok /\ done.ok
         THEN /\ sp' = [sp EXCEPT !.settings = done.settings]
              /\ steps' = Append(steps, Step("reconfigure", TRUE))
              /\ pc' = "handshake"
              /\ UNCHANGED <<result, closes>>
         ELSE /\ sp' = Dropped
              /\ closes' = closes + 1
              /\ result' = Question("reconfigure")
              /\ steps' = Append(steps, Step("reconfigure", FALSE))
              /\ pc' = "returned"
    /\ UNCHANGED <<os_type, ports, device, port_id, board, stdout, held, opens, probe>>

\* Mutant of Handshake: on a failed handshake the port is leaked, not dropped.
HandshakeLeaksPort ==
    /\ pc = "handshake"
    /\ sp' = Moved
    /\ \E answered \in BOOLEAN :
         IF answered
         THEN /\ board' = [tag |-> "Board", sp |-> sp,
                           firmware_name |-> device.firmware_name,
                           firmware_version |-> device.firmware_version,
                           protocol_version |-> device.protocol_version]
              /\ steps' = Append(steps, Step("handshake", TRUE))
              /\ pc' = "print_firmware_version"
              /\ UNCHANGED <<result, closes>>
         ELSE /\ board' = Dropped
              /\ closes' = closes
              /\ result' = Question("firmata::Board::new")
              /\ steps' = Append(steps, Step("handshake", FALSE))
              /\ pc' = "returned"
    /\ UNCHANGED <<os_type, ports, device, port_id, stdout, held, opens, probe>>

\* line 127: let mut board = firmata::Board::new(Box::new(sp))?;
\* `sp` is moved into the session. The handshake asks the device for its firmware
\* and protocol version; an unresponsive or unsupported firmware makes it fail, and
\* the session, with the port inside, is dropped.
Handshake ==
    /\ pc = "handshake"
    /\ sp' = Moved
    /\ \E answered \in BOOLEAN :
         IF answered
         THEN /\ board' = [tag |-> "Board", sp |-> sp,
                           firmware_name |-> device.firmware_name,
                           firmware_version |-> device.firmware_version,
                           protocol_version |-> device.protocol_version]
              /\ steps' = Append(steps, Step("handshake", TRUE))
              /\ pc' = "print_firmware_version"
              /\ UNCHANGED <<result, closes>>
         ELSE /\ board' = Dropped
              /\ closes' = closes + 1
              /\ result' = Question("firmata::Board::new")
              /\ steps' = Append(steps, Step("handshake", FALSE))
              /\ pc' = "returned"
    /\ UNCHANGED <<os_type, ports, device, port_id, stdout, held, opens, probe>>

\* line 129: println!("firmware version {}", board.firmware_version());
PrintFirmwareVersion ==
    /\ pc = "print_firmware_version"
    /\ stdout' = Append(stdout, Println("firmware version", board.firmware_version))
    /\ steps' = Append(steps, Step("print_firmware_version", TRUE))
    /\ pc' = "print_firmware_name"
    /\ UNCHANGED <<os_type, ports, device, port_id, sp, board, result, held,
                   opens, closes, probe>>

\* line 130: println!("firmware name {}", board.firmware_name());
PrintFirmwareName ==
    /\ pc = "print_firmware_name"
    /\ stdout' = Append(stdout, Println("firmware name", board.firmware_name))
    /\ steps' = Append(steps, Step("print_firmware_name", TRUE))
    /\ pc' = "print_protocol_version"
    /\ UNCHANGED <<os_type, ports, device, port_id, sp, board, result, held,
                   opens, closes, probe>>

\* Mutant of PrintProtocolVersion: the line reports board.firmware_version().
PrintProtocolVersionFromFirmware ==
    /\ pc = "print_protocol_version"
    /\ stdout' = Append(stdout, Println("protocol version", board.firmware_version))
    /\ steps' = Append(steps, Step("print_protocol_version", TRUE))
    /\ pc' = "return"
    /\ UNCHANGED <<os_type, ports, device, port_id, sp, board, result, held,
                   opens, closes, probe>>

\* line 131: println!("protocol version {}", board.protocol_version());
PrintProtocolVersion ==
    /\ pc = "print_protocol_version"
    /\ stdout' = Append(stdout, Println("protocol version", board.protocol_version))
    /\ steps' = Append(steps, Step("print_protocol_version", TRUE))
    /\ pc' = "return"
    /\ UNCHANGED <<os_type, ports, device, port_id, sp, board, result, held,
                   opens, closes, probe>>

\* Mutant of Handle: the branches of the platform test are swapped.
HandleSwapped(os, b) ==
    IF os = "windows"
    THEN [tag |-> "CircuitPlayground", win_board |-> None, unix_board |-> b]
    ELSE [tag |-> "CircuitPlayground", win_board |-> b, unix_board |-> None]

\* lines 135-139: the struct literal of the platform branch; `board` is moved
\* into one field and the other is None.
Handle(os, b) ==
    IF os = "windows"
    THEN [tag |-> "CircuitPlayground", win_board |-> b, unix_board |-> None]
    ELSE [tag |-> "CircuitPlayground", win_board |-> None, unix_board |-> b]

\* lines 133-139: let os_type = env::consts::OS; if os_type == "windows" {..} else {..}
Return ==
    /\ pc = "return"
    /\ result' = [tag |-> "Ok", value |-> Handle(os_type, board)]
    /\ held' = Handle(os_type, board)
    /\ board' = Moved
    /\ steps' = Append(steps, Step("return", TRUE))
    /\ pc' = "returned"
    /\ UNCHANGED <<os_type, ports, device, port_id, sp, stdout, opens, closes, probe>>

\* The caller lets the CircuitPlayground go out of scope: its fields are dropped,
\* and with the session the port it owns.
DropHandle ==
    /\ pc = "returned"
    /\ held \notin {None, Dropped}
    /\ held' = Dropped
    /\ closes' = closes + 1
    /\ UNCHANGED <<os_type, ports, device, pc, port_id, sp, board, stdout, result,
                   steps, opens, probe>>

NoProbe == [stage |-> "off"]

Init ==
    /\ os_type \in OsTypes
    /\ ports \in [PortIds -> PortStatuses]
    /\ device \in Devices
    /\ pc = "idle"
    /\ port_id = "COM3"
    /\ sp = None
    /\ board = None
    /\ stdout = << >>
    /\ result = NoResult
    /\ held = None
    /\ steps = << >>
    /\ opens = 0
    /\ closes = 0
    /\ probe = NoProbe

Next ==
    \/ Call
    \/ Open
    \/ Reconfigure
    \/ Handshake
    \/ PrintFirmwareVersion
    \/ PrintFirmwareName
    \/ PrintProtocolVersion
    \/ Return
    \/ DropHandle

Spec == Init /\ [][Next]_vars

\* The statics on their own: any two statics are read, or a raw capacitive
\* reading is compared with the threshold; new() is not called.
TableInit ==
    /\ os_type = "linux"
    /\ ports = [id \in PortIds |-> "missing"]
    /\ device = CHOOSE d \in Devices : TRUE
    /\ pc = "idle"
    /\ port_id = "COM3"
    /\ sp = None
    /\ board = None
    /\ stdout = << >>
    /\ result = NoResult
    /\ held = None
    /\ steps = << >>
    /\ opens = 0
    /\ closes = 0
    /\ \/ probe \in [stage : {"pick"}, a : Names(Statics), b : Names(Statics)]
       \/ probe \in [stage : {"raw"}, raw : 0..MaxReading]

TableNext ==
    \/ ReadStatics
    \/ CapTouched

TableSpec == TableInit /\ [][TableNext]_vars

-----------------------------------------------------------------------------
(* Properties of CircuitPlayground::new *)

\* The session a handle holds: the populated one of its two fields.
Session(h) == IF h.win_board # None THEN h.win_board ELSE h.unix_board

\* new() has executed its first statement in the current call.
PastOpen == pc \notin {"idle", "open"}

Failed(stmt) == \E i \in 1..Len(steps) : steps[i] = Step(stmt, FALSE)

Succeeded(stmt) == \E i \in 1..Len(steps) : steps[i] = Step(stmt, TRUE)

\* C1: when serial::open fails (the port is missing or busy), new() returns an
\* error, no CircuitPlayground is constructed, and no later statement runs: the
\* port is neither opened nor reconfigured, no Board is created and nothing is
\* printed.
C1_OpenFailureStopsNew ==
    (PastOpen /\ ports[port_id] # "available") =>
        /\ pc = "returned"
        /\ result.tag = "Err"
        /\ result.source = "serial::open"
        /\ held = None
        /\ steps = << Step("open", FALSE) >>
        /\ sp = None
        /\ board = None
        /\ stdout = << >>
        /\ opens = 0
        /\ closes = 0

C1_Witness ==
    /\ pc = "returned"
    /\ ports[port_id] = "busy"
    /\ result = Question("serial::open")

\* The two failure kinds of the specification.
FailureKind(call) ==
    CASE call \in {"serial::open", "reconfigure"} -> "port-open/configuration"
      [] call = "firmata::Board::new" -> "protocol-handshake"
      [] OTHER -> "other"

\* The statement that makes each call.
CallOf(stmt) ==
    CASE stmt = "open" -> "serial::open"
      [] stmt = "reconfigure" -> "reconfigure"
      [] stmt = "handshake" -> "firmata::Board::new"
      [] OTHER -> "none"

\* C2: new() fails in exactly two ways, a port-open/configuration failure
\* (serial::open, reconfigure) and a handshake failure (firmata::Board::new);
\* every failure ends the call at once with the one error outcome
\* Err(Box<dyn Error>) and no handle, every Err comes from such a failure, and no
\* statement is executed a second time.
C2_TwoFailureKindsOneOutcome ==
    /\ \A i \in 1..Len(steps) :
         steps[i].ok = FALSE =>
            /\ i = Len(steps)
            /\ pc = "returned"
            /\ result.tag = "Err"
            /\ result.ty = "Box<dyn Error>"
            /\ result.source = CallOf(steps[i].stmt)
            /\ FailureKind(result.source)
                   \in {"port-open/configuration", "protocol-handshake"}
            /\ held = None
    /\ result.tag = "Err" => (Len(steps) >= 1 /\ steps[Len(steps)].ok = FALSE)
    /\ \A i, j \in 1..Len(steps) : i # j => steps[i].stmt # steps[j].stmt

C2_Witness ==
    /\ pc = "returned"
    /\ Failed("handshake")
    /\ result.tag = "Err"
    /\ FailureKind(result.source) = "protocol-handshake"

C2_WitnessPort ==
    /\ pc = "returned"
    /\ Failed("reconfigure")
    /\ FailureKind(result.source) = "port-open/configuration"

\* C3: when the port opens, the reconfiguration succeeds and the handshake
\* succeeds, new() does not fail; it returns Ok with a handle holding the session
\* made on that port, and the protocol version printed from that session is the
\* device's.
C3_SuccessReportsDeviceProtocol ==
    (Succeeded("open") /\ Succeeded("reconfigure") /\ Succeeded("handshake")) =>
        /\ result.tag # "Err"
        /\ Len(stdout) >= 3 =>
              stdout[3] = "protocol version " \o device.protocol_version
        /\ pc = "returned" =>
              /\ result.tag = "Ok"
              /\ result.value.tag = "CircuitPlayground"
              /\ Session(result.value).tag = "Board"
              /\ Session(result.value).sp.id = port_id
              /\ Session(result.value).protocol_version = device.protocol_version
              /\ Len(stdout) = 3

C3_Witness ==
    /\ pc = "returned"
    /\ result.tag = "Ok"
    /\ device.protocol_version = "2.3"
    /\ device.firmware_version = "2.5"
    /\ stdout[3] = "protocol version 2.3"

\* The order the specification gives the steps of new().
Phase(stmt) ==
    CASE stmt = "open" -> 1
      [] stmt = "reconfigure" -> 2
      [] stmt = "handshake" -> 3
      [] stmt \in {"print_firmware_version", "print_firmware_name",
                   "print_protocol_version"} -> 4
      [] stmt = "return" -> 5

\* 57600 baud, 8 data bits, no parity, 1 stop bit, no flow control.
Line57600_8N1 ==
    [baud_rate |-> "Baud57600", char_size |-> "Bits8", parity |-> "ParityNone",
     stop_bits |-> "Stop1", flow_control |-> "FlowNone"]

\* C4: the steps of new() run in the order open, configure, create session,
\* report (firmware version, name, protocol version), return; a call that returns
\* a handle has run them all; and the port a session receives carries all five
\* settings 57600 baud, 8 data bits, no parity, 1 stop bit, no flow control.
C4_StepOrderAndLineSettings ==
    /\ \A i, j \in 1..Len(steps) :
         i < j => /\ Phase(steps[i].stmt) <= Phase(steps[j].stmt)
                  /\ Phase(steps[i].stmt) = Phase(steps[j].stmt)
                        => Phase(steps[i].stmt) = 4
    /\ \A j \in 1..Len(steps) :
         \A ph \in 1..(Phase(steps[j].stmt) - 1) :
            \E i \in 1..(j - 1) : Phase(steps[i].stmt) = ph /\ steps[i].ok
    /\ Succeeded("return") =>
         /\ Len(stdout) = 3
         /\ {steps[i].stmt : i \in 1..Len(steps)} =
               {"open", "reconfigure", "handshake", "print_firmware_version",
                "print_firmware_name", "print_protocol_version", "return"}
    /\ board.tag = "Board" => board.sp.settings = Line57600_8N1
    /\ held.tag = "CircuitPlayground" => Session(held).sp.settings = Line57600_8N1
    /\ pc = "handshake" => sp.settings = Line57600_8N1

C4_Witness ==
    /\ pc = "returned"
    /\ Succeeded("return")
    /\ held.tag = "CircuitPlayground"
    /\ Session(held).sp.settings.flow_control = "FlowNone"
    /\ Session(held).sp.settings.baud_rate = "Baud57600"

\* How many values hold the open port.
Holders ==
    (IF sp.tag = "Port" THEN 1 ELSE 0)
  + (IF board.tag = "Board" THEN 1 ELSE 0)
  + (IF held.tag = "CircuitPlayground" THEN 1 ELSE 0)

\* C8: a port that new() opened is closed exactly once. It is opened at most
\* once; while it is open exactly one value owns it; after a failed reconfigure or
\* handshake it has been closed; after success it is open and owned by the session
\* in the returned handle, and closed when that handle is dropped; it is never
\* closed twice.
C8_PortClosedExactlyOnce ==
    /\ opens \in {0, 1}
    /\ closes <= opens
    /\ Holders = opens - closes
    /\ (pc = "returned" /\ result.tag = "Err") => closes = opens
    /\ (pc = "returned" /\ result.tag = "Ok" /\ held.tag = "CircuitPlayground") =>
          /\ opens = 1
          /\ closes = 0
          /\ Session(held).sp.tag = "Port"
    /\ held = Dropped => (opens = 1 /\ closes = 1)

C8_Witness ==
    /\ pc = "returned"
    /\ Failed("handshake")
    /\ opens = 1
    /\ closes = 1

C8_WitnessDropped ==
    /\ held = Dropped
    /\ result.tag = "Ok"
    /\ closes = 1

\* C9: a returned handle has exactly one of its two platform fields populated,
\* with the session: win_board exactly when the host OS is "windows", unix_board
\* on every other host.
C9_OnePlatformField ==
    result.tag = "Ok" =>
        LET h == result.value IN
        /\ (h.win_board = None) # (h.unix_board = None)
        /\ (h.win_board # None) <=> (os_type = "windows")
        /\ (h.unix_board # None) <=> (os_type # "windows")
        /\ Session(h).tag = "Board"

C9_Witness ==
    /\ result.tag = "Ok"
    /\ os_type = "windows"
    /\ result.value.win_board.tag = "Board"
    /\ result.value.unix_board = None

C9_WitnessUnix ==
    /\ result.tag = "Ok"
    /\ os_type = "freebsd"
    /\ result.value.unix_board.tag = "Board"
    /\ result.value.win_board = None

-----------------------------------------------------------------------------
(* Properties of the statics *)

HexDigits == <<"0", "1", "2", "3", "4", "5", "6", "7", "8", "9",
               "A", "B", "C", "D", "E", "F">>

LowerHexDigits == <<"0", "1", "2", "3", "4", "5", "6", "7", "8", "9",
                    "a", "b", "c", "d", "e", "f">>

IsHexDigit(c) == \E i \in 1..16 : HexDigits[i] = c \/ LowerHexDigits[i] = c

DigitValue(c) == (CHOOSE i \in 1..16 : HexDigits[i] = c \/ LowerHexDigits[i] = c) - 1

RECURSIVE HexNumber(_, _)
HexNumber(digits, acc) ==
    IF digits = << >> THEN acc
    ELSE HexNumber(Tail(digits), 16 * acc + DigitValue(Head(digits)))

\* The number a hex literal text denotes ("0x3A" is 58); -1 for any other text.
HexValue(text) ==
    IF /\ Len(text) >= 3
       /\ text[1] = "0"
       /\ text[2] = "x"
       /\ \A i \in 3..Len(text) : IsHexDigit(text[i])
    THEN HexNumber(SubSeq(text, 3, Len(text)), 0)
    ELSE -1

\* The opcode table of the specification's section 6: the command prefix and
\* the opcodes, name -> byte.
DocumentedOpcodes ==
    << <<"COMMAND", \H40>>,
       <<"PIXEL_SET", \H10>>, <<"PIXEL_SHOW", \H11>>, <<"PIXEL_CLEAR", \H12>>,
       <<"PIXEL_BRIGHTNESS", \H13>>, <<"TONE", \H20>>, <<"NO_TONE", \H21>>,
       <<"ACCEL_READ", \H30>>, <<"ACCEL_TAP", \H31>>,
       <<"ACCEL_READ_REPLY", \H36>>, <<"ACCEL_TAP_REPLY", \H37>>,
       <<"ACCEL_TAP_STREAM_ON", \H38>>, <<"ACCEL_TAP_STREAM_OFF", \H39>>,
       <<"ACCEL_STREAM_ON", \H3A>>, <<"ACCEL_STREAM_OFF", \H3B>>,
       <<"ACCEL_RANGE", \H3C>>, <<"ACCEL_TAP_CONFIG", \H3D>>,
       <<"CAP_READ", \H40>>, <<"CAP_ON", \H41>>, <<"CAP_OFF", \H42>>,
       <<"CAP_REPLY", \H43>>, <<"SENSECOLOR", \H50>>,
       <<"SENSECOLOR_REPLY", \H51>>, <<"IMPL_VERS", \H60>>,
       <<"IMPL_VERS_REPLY", \H61>> >>

\* The documented byte of the static called `name` ("CP_" and the documented name).
DocumentedByte(name) ==
    DocumentedOpcodes[CHOOSE i \in DOMAIN DocumentedOpcodes :
                          "CP_" \o DocumentedOpcodes[i][1] = name][2]

\* C5: the opcode table is exhaustive, and each name maps to its documented
\* byte: the statics of lines 44-90 are exactly the documented names (with the
\* prefix CP_), each once, and the hex text of each denotes the documented byte.
C5_OpcodeTableAsDocumented ==
    /\ Names(OpcodeStatics) = {"CP_" \o DocumentedOpcodes[i][1] : i \in DOMAIN DocumentedOpcodes}
    /\ Len(OpcodeStatics) = Cardinality(Names(OpcodeStatics))
    /\ Len(DocumentedOpcodes) = Len(OpcodeStatics)
    /\ (probe.stage = "read" /\ probe.a \in Names(OpcodeStatics)) =>
           HexValue(probe.va) = DocumentedByte(probe.a)

C5_Witness ==
    /\ probe.stage = "read"
    /\ probe.a = "CP_ACCEL_STREAM_ON"
    /\ probe.va = <<"0", "x", "3", "A">>
    /\ HexValue(probe.va) = 58

\* The documented range selectors: range in G -> selector.
DocumentedRanges ==
    << <<"ACCEL_2G", 2, 0>>, <<"ACCEL_4G", 4, 1>>, <<"ACCEL_8G", 8, 2>>,
       <<"ACCEL_16G", 16, 3>> >>

RangeOf(name) ==
    DocumentedRanges[CHOOSE i \in DOMAIN DocumentedRanges :
                         DocumentedRanges[i][1] = name]

\* C6: the accelerometer range statics are 0, 1, 2, 3 for 2G, 4G, 8G, 16G: each
\* has its documented selector, and a larger range has a larger selector (so no
\* two ranges share one).
C6_AccelRangeSelectors ==
    /\ Names(AccelStatics) = Names(DocumentedRanges)
    /\ (probe.stage = "read" /\ probe.a \in Names(AccelStatics)) =>
           /\ probe.va = RangeOf(probe.a)[3]
           /\ probe.va \in {0, 1, 2, 3}
    /\ (/\ probe.stage = "read"
        /\ probe.a \in Names(AccelStatics)
        /\ probe.b \in Names(AccelStatics)
        /\ RangeOf(probe.a)[2] < RangeOf(probe.b)[2]) => probe.va < probe.vb

C6_Witness ==
    /\ probe.stage = "read"
    /\ probe.a = "ACCEL_8G"
    /\ probe.b = "ACCEL_16G"
    /\ probe.va = 2
    /\ probe.vb = 3

\* C7: the thermistor statics and the cap-touch threshold have their literal
\* values (series resistor 10000, nominal resistance 10000 at 25 degrees, beta
\* 3950, threshold 300), and a raw capacitive reading is touched exactly when it
\* is greater than 300: 300 itself is not.
C7_PeripheralConstants ==
    /\ probe.stage = "read" =>
          /\ probe.a = "THERM_SERIES_OHMS" => probe.va = 10000
          /\ probe.a = "THERM_NOMINAL_OHMS" => probe.va = 10000
          /\ probe.a = "THERM_NOMIMAL_C" => probe.va = 25
          /\ probe.a = "THERM_BETA" => probe.va = 3950
          /\ probe.a = "CAP_THRESHOLD" => probe.va = 300
    /\ probe.stage = "touch" =>
          /\ probe.touched <=> (probe.raw > 300)
          /\ probe.raw = 300 => ~probe.touched

C7_Witness ==
    /\ probe.stage = "touch"
    /\ probe.raw = 301
    /\ probe.touched

C7_WitnessAtThreshold ==
    /\ probe.stage = "touch"
    /\ probe.raw = 300
    /\ ~probe.touched

\* C10: every opcode value fits in a 7-bit Firmata data byte, the sub-command
\* opcodes (every static of the table but CP_COMMAND) are pairwise distinct, and
\* the one value that occurs twice in the table is 0x40, of CP_COMMAND and
\* CP_CAP_READ.
C10_SevenBitDistinctOpcodes ==
    (/\ probe.stage = "read"
     /\ probe.a \in Names(OpcodeStatics)
     /\ probe.b \in Names(OpcodeStatics)) =>
        /\ HexValue(probe.va) \in 0..127
        /\ (probe.a # probe.b /\ HexValue(probe.va) = HexValue(probe.vb)) =>
              /\ {probe.a, probe.b} = {"CP_COMMAND", "CP_CAP_READ"}
              /\ HexValue(probe.va) = 64
        /\ {probe.a, probe.b} = {"CP_COMMAND", "CP_CAP_READ"} =>
              HexValue(probe.va) = HexValue(probe.vb)

C10_Witness ==
    /\ probe.stage = "read"
    /\ probe.a = "CP_COMMAND"
    /\ probe.b = "CP_CAP_READ"
    /\ HexValue(probe.va) = 64
    /\ HexValue(probe.vb) = 64

====
